---------------------------- MODULE Spec2Model ----------------------------
(***************************************************************************)
(* A model of grout (src/grout/__init__.py): the Grout tile index of a     *)
(* raster grid.  A Grout is built from (dim, blocksize, extent|transform), *)
(* and answers __len__, __getitem__ (integer or (col, row) tuple),         *)
(* __iter__ (a generator, one per call) and index_partition(n).            *)
(*                                                                         *)
(* Numbers.  Pixel quantities are Python ints (unbounded; the model's      *)
(* values stay far below any width).  Coordinates are modelled in exact    *)
(* arithmetic, as normalised fractions [n, d]: this is what the code       *)
(* computes for int or fractions.Fraction arguments; binary floating-point *)
(* rounding is not modelled.  math.ceil(a / b) is modelled as the exact    *)
(* ceiling, which is what the float division yields for |a| < 2^53.        *)
(***************************************************************************)
EXTENDS Integers, Sequences, FiniteSets, TLC

VARIABLES
    args,    \* the arguments of the Grout(...) call
    pc,      \* "new" (call not yet made), "ready" (object built), "failed" (raised)
    grid,    \* the Grout object's attributes, NoGrid while there is none
    err,     \* the exception the constructor raised, "none" otherwise
    ret,     \* the last query made on the object and what it returned or raised
    iters    \* the generator objects handed out by __iter__

vars == <<args, pc, grid, err, ret, iters>>

---------------------------------------------------------------------------
(* Bounds of the model *)

MaxDim == 4        \* grid sides range over 1..MaxDim (and -MaxNeg..MaxDim in SpecCtor)
MaxBlock == 3      \* tile sides range over 1..MaxBlock
MaxN == 6          \* index_partition(n) is called with n in 0..MaxN
MaxNeg == 2        \* how far below zero the constructor's sizes are drawn

Iters == {"it1", "it2"}

---------------------------------------------------------------------------
(* Exact arithmetic on fractions *)

Abs(x) == IF x < 0 THEN -x ELSE x

RECURSIVE GCD(_, _)
GCD(a, b) == IF b = 0 THEN a ELSE GCD(b, a % b)

RatNorm(n, d) ==
    LET s == IF d < 0 THEN -1 ELSE 1
        g == GCD(Abs(n), Abs(d))
    IN  [n |-> (s * n) \div g, d |-> (s * d) \div g]

R(k) == [n |-> k, d |-> 1]
RatAdd(a, b) == RatNorm(a.n * b.d + b.n * a.d, a.d * b.d)
RatSub(a, b) == RatNorm(a.n * b.d - b.n * a.d, a.d * b.d)
RatNeg(a) == [n |-> -a.n, d |-> a.d]
RatMulInt(k, a) == RatNorm(k * a.n, a.d)
RatDivInt(a, k) == RatNorm(a.n, a.d * k)          \* k # 0
RatPos(a) == a.n > 0

(* a slip: ncol // block_width, which drops the partial last tile *)
CeilDivAsFloor(a, b) == IF b > 0 THEN a \div b ELSE (-a) \div (-b)

(* Python's floor division and modulo (divmod), and math.ceil(a / b), b # 0 *)
FloorDiv(a, b) == IF b > 0 THEN a \div b ELSE (-a) \div (-b)
PyMod(a, b) == a - b * FloorDiv(a, b)
CeilDiv(a, b) == -FloorDiv(-a, b)
Min(a, b) == IF a <= b THEN a ELSE b

---------------------------------------------------------------------------
(* The constructor *)

None == <<>>
NoGrid == [tag |-> "none"]
NoRet == [op |-> "none"]
NoIter == [st |-> "none", tr |-> 0, tc |-> 0, out |-> <<>>]

(* a slip: the transform's last term stored as it comes, not negated *)
InitGroutNoNegate(a) ==
    LET ncol == a.dim[1]
        nrow == a.dim[2]
        ref == IF a.extent # None
               THEN [xres |-> RatDivInt(RatSub(a.extent[2], a.extent[1]), ncol),
                     yres |-> RatDivInt(RatSub(a.extent[4], a.extent[3]), nrow),
                     xmin |-> a.extent[1],
                     ymax |-> a.extent[4]]
               ELSE [xres |-> a.transform[2],
                     yres |-> a.transform[6],
                     xmin |-> a.transform[1],
                     ymax |-> a.transform[4]]
    IN  [tag |-> "Grout",
         ncol |-> ncol, nrow |-> nrow,
         block_width |-> a.blocksize[1], block_height |-> a.blocksize[2],
         xres |-> ref.xres, yres |-> ref.yres,
         xmin |-> ref.xmin, ymax |-> ref.ymax,
         tile_cols |-> CeilDiv(ncol, a.blocksize[1]),
         tile_rows |-> CeilDiv(nrow, a.blocksize[2])]

(* Grout.__init__: the attributes it sets, when it raises nothing *)
InitGrout(a) ==
    LET ncol == a.dim[1]
        nrow == a.dim[2]
        bw == a.blocksize[1]
        bh == a.blocksize[2]
        ref == IF a.extent # None
               THEN [xres |-> RatDivInt(RatSub(a.extent[2], a.extent[1]), ncol),
                     yres |-> RatDivInt(RatSub(a.extent[4], a.extent[3]), nrow),
                     xmin |-> a.extent[1],
                     ymax |-> a.extent[4]]
               ELSE [xres |-> a.transform[2],
                     yres |-> RatNeg(a.transform[6]),
                     xmin |-> a.transform[1],
                     ymax |-> a.transform[4]]
    IN  [tag |-> "Grout",
         ncol |-> ncol, nrow |-> nrow,
         block_width |-> bw, block_height |-> bh,
         xres |-> ref.xres, yres |-> ref.yres,
         xmin |-> ref.xmin, ymax |-> ref.ymax,
         tile_cols |-> CeilDiv(ncol, bw),
         tile_rows |-> CeilDiv(nrow, bh)]

(* Grout.__init__: the exception it raises, "none" when it returns *)
InitError(a) ==
    IF a.extent # None /\ (a.dim[1] = 0 \/ a.dim[2] = 0) THEN "ZeroDivisionError"
    ELSE IF a.extent = None /\ a.transform = None THEN "ValueError"
    ELSE IF a.blocksize[1] = 0 \/ a.blocksize[2] = 0 THEN "ZeroDivisionError"
    ELSE "none"

Construct ==
    /\ pc = "new"
    /\ IF InitError(args) = "none"
       THEN /\ pc' = "ready"
            /\ grid' = InitGrout(args)
            /\ err' = "none"
       ELSE /\ pc' = "failed"
            /\ grid' = NoGrid
            /\ err' = InitError(args)
    /\ UNCHANGED <<args, ret, iters>>

(* Grout.__len__ *)
LenOf(g) == g.tile_rows * g.tile_cols

LenCall ==
    /\ pc = "ready"
    /\ ret' = [op |-> "len", val |-> LenOf(grid)]
    /\ UNCHANGED <<args, pc, grid, err, iters>>

---------------------------------------------------------------------------
(* Grout.__getitem__ *)

TupleIdx(c, r) == [kind |-> "tuple", col |-> c, row |-> r]
IntIdx(i) == [kind |-> "int", i |-> i]

(* a slip: divmod(idx, self.tile_rows) *)
IdxRowByRows(g, idx) == IF idx.kind = "tuple" THEN idx.row ELSE FloorDiv(idx.i, g.tile_rows)

(* a slip: only the upper ends tested, so that negative positions pass *)
InRangeNoLower(g, tc, tr) == tc < g.tile_cols /\ tr < g.tile_rows

(* lines 134-138: the (col, row) an index denotes; divmod needs tile_cols # 0 *)
IdxCol(g, idx) == IF idx.kind = "tuple" THEN idx.col ELSE PyMod(idx.i, g.tile_cols)
IdxRow(g, idx) == IF idx.kind = "tuple" THEN idx.row ELSE FloorDiv(idx.i, g.tile_cols)

(* line 140: the range test *)
InRange(g, tc, tr) == 0 <= tc /\ tc < g.tile_cols /\ 0 <= tr /\ tr < g.tile_rows

(* a slip: edge tiles not clipped to the grid *)
TileSpecAtNoClip(g, tc, tr) ==
    LET offset_x == tc * g.block_width
        offset_y == tr * g.block_height
        tile_xmin == RatAdd(g.xmin, RatMulInt(offset_x, g.xres))
        tile_ymax == RatSub(g.ymax, RatMulInt(offset_y, g.yres))
    IN  [col |-> tc, row |-> tr,
         offset_x |-> offset_x, offset_y |-> offset_y,
         ncol |-> g.block_width, nrow |-> g.block_height,
         xmin |-> tile_xmin, xmax |-> RatAdd(tile_xmin, RatMulInt(g.block_width, g.xres)),
         ymin |-> RatSub(tile_ymax, RatMulInt(g.block_height, g.yres)), ymax |-> tile_ymax]

(* a slip: sizes clipped, coordinate bounds taken from the nominal block size *)
TileSpecAtFullBounds(g, tc, tr) ==
    LET offset_x == tc * g.block_width
        offset_y == tr * g.block_height
        tile_xmin == RatAdd(g.xmin, RatMulInt(offset_x, g.xres))
        tile_ymax == RatSub(g.ymax, RatMulInt(offset_y, g.yres))
    IN  [col |-> tc, row |-> tr,
         offset_x |-> offset_x, offset_y |-> offset_y,
         ncol |-> Min(g.block_width, g.ncol - offset_x),
         nrow |-> Min(g.block_height, g.nrow - offset_y),
         xmin |-> tile_xmin, xmax |-> RatAdd(tile_xmin, RatMulInt(g.block_width, g.xres)),
         ymin |-> RatSub(tile_ymax, RatMulInt(g.block_height, g.yres)), ymax |-> tile_ymax]

(* lines 143-159: the TileSpec of tile (tc, tr) *)
TileSpecAt(g, tc, tr) ==
    LET offset_x == tc * g.block_width
        offset_y == tr * g.block_height
        ncol == Min(g.block_width, g.ncol - offset_x)
        nrow == Min(g.block_height, g.nrow - offset_y)
        tile_xmin == RatAdd(g.xmin, RatMulInt(offset_x, g.xres))
        tile_xmax == RatAdd(tile_xmin, RatMulInt(ncol, g.xres))
        tile_ymax == RatSub(g.ymax, RatMulInt(offset_y, g.yres))
        tile_ymin == RatSub(tile_ymax, RatMulInt(nrow, g.yres))
    IN  [col |-> tc, row |-> tr,
         offset_x |-> offset_x, offset_y |-> offset_y,
         ncol |-> ncol, nrow |-> nrow,
         xmin |-> tile_xmin, xmax |-> tile_xmax,
         ymin |-> tile_ymin, ymax |-> tile_ymax]

GetItem(g, idx) ==
    IF idx.kind = "int" /\ g.tile_cols = 0
    THEN [err |-> "ZeroDivisionError", val |-> None]
    ELSE IF ~InRange(g, IdxCol(g, idx), IdxRow(g, idx))
    THEN [err |-> "IndexError", val |-> None]
    ELSE [err |-> "none", val |-> TileSpecAt(g, IdxCol(g, idx), IdxRow(g, idx))]

(* g[(col, row)] *)
TileAt(c, r) ==
    /\ pc = "ready"
    /\ ret' = [op |-> "getitem", idx |-> TupleIdx(c, r), res |-> GetItem(grid, TupleIdx(c, r))]
    /\ UNCHANGED <<args, pc, grid, err, iters>>

(* g[index] *)
TileAtLinear(i) ==
    /\ pc = "ready"
    /\ ret' = [op |-> "getitem", idx |-> IntIdx(i), res |-> GetItem(grid, IntIdx(i))]
    /\ UNCHANGED <<args, pc, grid, err, iters>>

---------------------------------------------------------------------------
(* Grout.index_partition, run to exhaustion: list(g.index_partition(n)) *)

RECURSIVE PartitionFrom(_, _, _, _)
PartitionFrom(g, n, per_chunk, i) ==
    IF i >= n THEN <<>>
    ELSE LET start == i * per_chunk
             stop == Min(start + per_chunk, LenOf(g))
         IN  (IF start < stop THEN <<(<<start, stop>>)>> ELSE <<>>)
             \o PartitionFrom(g, n, per_chunk, i + 1)

(* a slip: per_chunk = len(self) // n *)
IndexPartitionOfFloor(g, n) ==
    IF n = 0 THEN [err |-> "ZeroDivisionError", val |-> None]
    ELSE [err |-> "none", val |-> PartitionFrom(g, n, FloorDiv(LenOf(g), n), 0)]

IndexPartitionOf(g, n) ==
    IF n = 0 THEN [err |-> "ZeroDivisionError", val |-> None]
    ELSE [err |-> "none", val |-> PartitionFrom(g, n, CeilDiv(LenOf(g), n), 0)]

IndexPartition(n) ==
    /\ pc = "ready"
    /\ ret' = [op |-> "index_partition", n |-> n, res |-> IndexPartitionOf(grid, n)]
    /\ UNCHANGED <<args, pc, grid, err, iters>>

---------------------------------------------------------------------------
(* Grout.__iter__: every call makes a generator with its own loop variables *)

(* a slip: the loop body sizing the tile's height from the column offset *)
IterTileMixedAxes(g, tr, tc) ==
    LET offset_x == tc * g.block_width
        offset_y == tr * g.block_height
        ncol == Min(g.block_width, g.ncol - offset_x)
        nrow == Min(g.block_height, g.nrow - offset_x)
        tile_xmin == RatAdd(g.xmin, RatMulInt(offset_x, g.xres))
        tile_ymax == RatSub(g.ymax, RatMulInt(offset_y, g.yres))
    IN  [col |-> tc, row |-> tr,
         offset_x |-> offset_x, offset_y |-> offset_y,
         ncol |-> ncol, nrow |-> nrow,
         xmin |-> tile_xmin, xmax |-> RatAdd(tile_xmin, RatMulInt(ncol, g.xres)),
         ymin |-> RatSub(tile_ymax, RatMulInt(nrow, g.yres)), ymax |-> tile_ymax]

(* lines 102-119: the TileSpec the loop body yields at (tr, tc) *)
IterTile(g, tr, tc) ==
    LET offset_x == tc * g.block_width
        offset_y == tr * g.block_height
        ncol == Min(g.block_width, g.ncol - offset_x)
        nrow == Min(g.block_height, g.nrow - offset_y)
        tile_xmin == RatAdd(g.xmin, RatMulInt(offset_x, g.xres))
        tile_xmax == RatAdd(tile_xmin, RatMulInt(ncol, g.xres))
        tile_ymax == RatSub(g.ymax, RatMulInt(offset_y, g.yres))
        tile_ymin == RatSub(tile_ymax, RatMulInt(nrow, g.yres))
    IN  [col |-> tc, row |-> tr,
         offset_x |-> offset_x, offset_y |-> offset_y,
         ncol |-> ncol, nrow |-> nrow,
         xmin |-> tile_xmin, xmax |-> tile_xmax,
         ymin |-> tile_ymin, ymax |-> tile_ymax]

(* lines 100-101: the loops have a next (tr, tc) to run the body at *)
IterHasNext(g, it) == it.tr < g.tile_rows /\ g.tile_cols > 0

(* one next() on generator `it`: run to the next yield, or off the end *)
IterAdvance(g, it) ==
    IF IterHasNext(g, it)
    THEN [st |-> "running",
          tr |-> IF it.tc + 1 < g.tile_cols THEN it.tr ELSE it.tr + 1,
          tc |-> IF it.tc + 1 < g.tile_cols THEN it.tc + 1 ELSE 0,
          out |-> Append(it.out, IterTile(g, it.tr, it.tc))]
    ELSE [it EXCEPT !.st = "done"]

(* a slip: the loop position kept on the Grout object, one for all generators *)
ItersAfterNextShared(g, its, i) ==
    [j \in DOMAIN its |->
        IF j = i THEN IterAdvance(g, its[i])
        ELSE IF its[j].st \in {"fresh", "running"}
        THEN [its[j] EXCEPT !.tr = IterAdvance(g, its[i]).tr, !.tc = IterAdvance(g, its[i]).tc]
        ELSE its[j]]

(* the generator objects after next() on generator i *)
ItersAfterNext(g, its, i) == [its EXCEPT ![i] = IterAdvance(g, its[i])]

(* iter(g): a new generator, not yet started *)
IterStart(i) ==
    /\ pc = "ready"
    /\ iters[i].st = "none"
    /\ iters' = [iters EXCEPT ![i] = [st |-> "fresh", tr |-> 0, tc |-> 0, out |-> <<>>]]
    /\ UNCHANGED <<args, pc, grid, err, ret>>

(* next(it) *)
IterNext(i) ==
    /\ pc = "ready"
    /\ iters[i].st \in {"fresh", "running"}
    /\ iters' = ItersAfterNext(grid, iters, i)
    /\ UNCHANGED <<args, pc, grid, err, ret>>

(* the caller drops generator i part-way and never advances it again *)
IterAbandon(i) ==
    /\ pc = "ready"
    /\ iters[i].st = "running"
    /\ iters' = [iters EXCEPT ![i].st = "abandoned"]
    /\ UNCHANGED <<args, pc, grid, err, ret>>

---------------------------------------------------------------------------
(* The calls the model makes *)

Half == [n |-> 1, d |-> 2]
Tenth == [n |-> 1, d |-> 10]

ExtentA == <<R(0), R(6), R(0), R(6)>>
ExtentB == <<R(-2), R(3), R(-1), R(1)>>
TransformA == <<R(0), Half, R(0), R(5), R(0), RatNeg(Half)>>
TransformB == <<R(-1), R(2), R(1), R(3), R(1), R(-3)>>
TransformUp == <<R(0), R(1), R(0), R(0), R(0), R(2)>>      \* south-up: f > 0
TransformFlat == <<R(0), R(1), R(0), R(0), R(0), R(0)>>    \* f = 0

Refs ==
    { [extent |-> ExtentA, transform |-> None],
      [extent |-> ExtentB, transform |-> TransformA],
      [extent |-> None, transform |-> TransformA],
      [extent |-> None, transform |-> TransformB] }

AllRefs ==
    Refs \cup { [extent |-> None, transform |-> None],
                [extent |-> None, transform |-> TransformUp],
                [extent |-> None, transform |-> TransformFlat] }

MkArgs(w, h, bw, bh, ref) ==
    [dim |-> <<w, h>>, blocksize |-> <<bw, bh>>,
     extent |-> ref.extent, transform |-> ref.transform]

(* calls with positive sizes and a coordinate reference *)
ValidArgs ==
    { MkArgs(w, h, bw, bh, ref) :
        w \in 1..MaxDim, h \in 1..MaxDim, bw \in 1..MaxBlock, bh \in 1..MaxBlock,
        ref \in Refs }

(* the calls of tests/test_grout.py *)
Scenario1 == MkArgs(1000, 500, 256, 256,
                    [extent |-> <<R(0), R(100), R(0), R(50)>>, transform |-> None])
Scenario3 == MkArgs(86400, 43200, 512, 512,
                    [extent |-> <<R(-180), R(180), R(-90), R(90)>>, transform |-> None])
Scenario4 == MkArgs(1000, 500, 100, 100,
                    [extent |-> None,
                     transform |-> <<R(0), Tenth, R(0), R(50), R(0), RatNeg(Tenth)>>])

(* any call: sizes of either sign, with or without a coordinate reference *)
AnyArgs ==
    { MkArgs(w, h, bw, bh, ref) :
        w \in -MaxNeg..MaxDim, h \in {-MaxNeg, 0, 1, MaxDim},
        bw \in -MaxNeg..MaxBlock, bh \in {-MaxNeg, 0, 1, MaxBlock},
        ref \in AllRefs }
    \cup ValidArgs \cup {Scenario1, Scenario3, Scenario4}

InitWith(A) ==
    /\ args \in A
    /\ pc = "new"
    /\ grid = NoGrid
    /\ err = "none"
    /\ ret = NoRet
    /\ iters = [i \in Iters |-> NoIter]

(* lookups and partitions on a grid with positive sizes *)
Init == InitWith(ValidArgs)

(* the indices asked for: every tile, and one step past each edge of the tile grid *)
ColInputs == IF pc = "ready" THEN -1..grid.tile_cols ELSE {}
RowInputs == IF pc = "ready" THEN -1..grid.tile_rows ELSE {}
IndexInputs == IF pc = "ready" THEN (-LenOf(grid) - 1)..(LenOf(grid) + 1) ELSE {}

Next ==
    \/ Construct
    \/ \E c \in ColInputs, r \in RowInputs : TileAt(c, r)
    \/ \E i \in IndexInputs : TileAtLinear(i)
    \/ \E n \in 0..MaxN : IndexPartition(n)

Spec == Init /\ [][Next]_vars

(* generators on a grid with positive sizes *)
IterArgs ==
    { a \in ValidArgs :
        \/ a.extent = ExtentA /\ a.transform = None
        \/ a.extent = None /\ a.transform = TransformA }

InitIter == InitWith(IterArgs)

NextIter ==
    \/ Construct
    \/ \E i \in Iters : IterStart(i)
    \/ \E i \in Iters : IterNext(i)
    \/ \E i \in Iters : IterAbandon(i)

SpecIter == InitIter /\ [][NextIter]_vars

(* the constructor on any arguments *)
InitCtor == InitWith(AnyArgs)

NextCtor ==
    \/ Construct
    \/ LenCall

SpecCtor == InitCtor /\ [][NextCtor]_vars

---------------------------------------------------------------------------
(* Properties *)

Ready == pc = "ready"
PositiveSizes(a) ==
    a.dim[1] > 0 /\ a.dim[2] > 0 /\ a.blocksize[1] > 0 /\ a.blocksize[2] > 0
GotTile == ret.op = "getitem" /\ ret.res.err = "none"
Cols(g) == 0..(g.tile_cols - 1)
Rows(g) == 0..(g.tile_rows - 1)
Tile(c, r) == GetItem(grid, TupleIdx(c, r)).val

(* tile t has the size the tessellation asks of it *)
WellSized(g, t) ==
    /\ t.ncol >= 1 /\ t.nrow >= 1
    /\ t.offset_x >= 0 /\ t.offset_x + t.ncol <= g.ncol
    /\ t.offset_y >= 0 /\ t.offset_y + t.nrow <= g.nrow
    /\ t.col < g.tile_cols - 1 => t.ncol = g.block_width
    /\ t.row < g.tile_rows - 1 => t.nrow = g.block_height
    /\ t.col = g.tile_cols - 1 => t.ncol = g.ncol - (g.tile_cols - 1) * g.block_width
    /\ t.row = g.tile_rows - 1 => t.nrow = g.nrow - (g.tile_rows - 1) * g.block_height

Covers(t, x, y) ==
    /\ t.offset_x <= x /\ x < t.offset_x + t.ncol
    /\ t.offset_y <= y /\ y < t.offset_y + t.nrow

(* C1: on a grid with positive sizes the tiles' pixel rectangles tile the     *)
(* grid exactly: every pixel lies in exactly one tile, no tile leaves the     *)
(* grid, every tile is at least 1 x 1, tiles off the last column (row) have   *)
(* the full block width (height), and the last column (row) has what is left. *)
C1_Tessellation ==
    Ready =>
      /\ \A x \in 0..(grid.ncol - 1), y \in 0..(grid.nrow - 1) :
            Cardinality({cr \in Cols(grid) \X Rows(grid) :
                            Covers(Tile(cr[1], cr[2]), x, y)}) = 1
      /\ \A c \in Cols(grid), r \in Rows(grid) :
            /\ GetItem(grid, TupleIdx(c, r)).err = "none"
            /\ WellSized(grid, Tile(c, r))
            /\ Tile(c, r).offset_x = c * grid.block_width
            /\ Tile(c, r).offset_y = r * grid.block_height
      /\ GotTile => WellSized(grid, ret.res.val)

C1_Witness ==
    /\ GotTile
    /\ grid.tile_cols >= 2 /\ grid.tile_rows >= 2
    /\ ret.res.val.col = grid.tile_cols - 1 /\ ret.res.val.ncol < grid.block_width
    /\ ret.res.val.row = grid.tile_rows - 1 /\ ret.res.val.nrow < grid.block_height

(* C2: for every linear index i in [0, count) g[i] returns the record of      *)
(* g[(i % tile_cols, i / tile_cols)], and i -> (col, row) is a row-major      *)
(* bijection onto [0, tile_cols) x [0, tile_rows).                            *)
C2_LinearIsRowMajor ==
    Ready =>
      /\ \A i \in 0..(LenOf(grid) - 1) :
            /\ GetItem(grid, IntIdx(i)) =
                 GetItem(grid, TupleIdx(i % grid.tile_cols, i \div grid.tile_cols))
            /\ GetItem(grid, IntIdx(i)).err = "none"
            /\ GetItem(grid, IntIdx(i)).val.row * grid.tile_cols
                 + GetItem(grid, IntIdx(i)).val.col = i
      /\ \A c \in Cols(grid), r \in Rows(grid) :
            Cardinality({i \in 0..(LenOf(grid) - 1) :
                            /\ GetItem(grid, IntIdx(i)).val.col = c
                            /\ GetItem(grid, IntIdx(i)).val.row = r}) = 1
      /\ (ret.op = "getitem" /\ ret.idx.kind = "int"
            /\ 0 <= ret.idx.i /\ ret.idx.i < LenOf(grid)) =>
            ret.res = GetItem(grid, TupleIdx(ret.idx.i % grid.tile_cols,
                                             ret.idx.i \div grid.tile_cols))

C2_Witness ==
    /\ GotTile /\ ret.idx.kind = "int"
    /\ ret.res.val.col >= 1 /\ ret.res.val.row >= 1
    /\ grid.tile_cols # grid.tile_rows

(* the position an index asks for lies in the tile grid *)
Asked(g, idx) ==
    IF idx.kind = "tuple"
    THEN idx.col \in Cols(g) /\ idx.row \in Rows(g)
    ELSE idx.i \in 0..(LenOf(g) - 1)

(* C3: on a grid with positive sizes a lookup raises IndexError and returns   *)
(* no record exactly when the position asked for is outside the tile grid     *)
(* (a negative linear index included: no wrap-around), and succeeds otherwise.*)
C3_OutOfRange ==
    ret.op = "getitem" =>
      /\ ~Asked(grid, ret.idx) => (ret.res.err = "IndexError" /\ ret.res.val = None)
      /\ Asked(grid, ret.idx) => (ret.res.err = "none" /\ ret.res.val # None)

C3_Witness ==
    /\ ret.op = "getitem" /\ ret.idx.kind = "int"
    /\ ret.idx.i < 0 /\ -ret.idx.i <= LenOf(grid)
    /\ grid.tile_cols >= 2 /\ grid.tile_rows >= 2
    /\ ret.res.err = "IndexError"

RECURSIVE RunAlone(_, _)
RunAlone(g, it) == IF it.st = "done" THEN it.out ELSE RunAlone(g, IterAdvance(g, it))
ListOf(g) == RunAlone(g, [st |-> "fresh", tr |-> 0, tc |-> 0, out |-> <<>>])

(* C5: generators over one grid advanced in any interleaving, one abandoned   *)
(* part-way or not: what each has yielded is a prefix of what a generator run *)
(* alone yields, and all of it (count() tiles) once it is exhausted; a step   *)
(* that advances one generator leaves the others as they were, and no step    *)
(* changes the grid's attributes.                                             *)
C5_Reenterable ==
    /\ [](Ready =>
            \A i \in Iters :
               /\ Len(iters[i].out) <= Len(ListOf(grid))
               /\ iters[i].out = SubSeq(ListOf(grid), 1, Len(iters[i].out))
               /\ \A k \in 1..Len(iters[i].out) :
                     /\ iters[i].out[k].col = (k - 1) % grid.tile_cols
                     /\ iters[i].out[k].row = (k - 1) \div grid.tile_cols
               /\ iters[i].st = "done" =>
                     /\ iters[i].out = ListOf(grid)
                     /\ Len(iters[i].out) = LenOf(grid))
    /\ [][/\ \A i \in Iters :
                iters'[i] # iters[i] => \A j \in Iters \ {i} : iters'[j] = iters[j]
          /\ Ready => (grid' = grid /\ args' = args)]_vars

C5_Witness ==
    /\ iters["it1"].st = "done" /\ Len(iters["it1"].out) >= 4
    /\ iters["it2"].st = "abandoned"
    /\ Len(iters["it2"].out) >= 2 /\ Len(iters["it2"].out) < LenOf(grid)

(* C6: a generator yields at most count() tiles, is exhausted exactly when it *)
(* has yielded count(), and the k-th tile it yields (k from 0) is, field for  *)
(* field, the record g[k] returns: row k / tile_cols, column k % tile_cols.   *)
C6_IterMatchesLookup ==
    Ready =>
      \A i \in Iters :
         LET it == iters[i]
         IN  /\ Len(it.out) <= LenOf(grid)
             /\ \A k \in 1..Len(it.out) :
                   /\ GetItem(grid, IntIdx(k - 1)).err = "none"
                   /\ it.out[k] = GetItem(grid, IntIdx(k - 1)).val
                   /\ it.out[k].row = (k - 1) \div grid.tile_cols
                   /\ it.out[k].col = (k - 1) % grid.tile_cols
             /\ it.st = "done" => Len(it.out) = LenOf(grid)
             /\ it.st \in {"fresh", "running"} =>
                   (IterHasNext(grid, it) <=> Len(it.out) < LenOf(grid))

C6_Witness ==
    /\ iters["it1"].st = "done"
    /\ grid.tile_cols >= 2 /\ grid.tile_rows >= 2
    /\ LET last == iters["it1"].out[Len(iters["it1"].out)]
       IN  last.ncol < grid.block_width /\ last.nrow < grid.block_height
              /\ grid.xres.d > 1

(* k is the ceiling of a / b, for a, b > 0 *)
IsCeil(k, a, b) == (k - 1) * b < a /\ a <= k * b

C8_CoordinateCoverage ==
    Ready =>
      /\ \A r \in Rows(grid) :
            /\ Tile(0, r).xmin = grid.xmin
            /\ \A c \in 0..(grid.tile_cols - 2) : Tile(c, r).xmax = Tile(c + 1, r).xmin
            /\ Tile(grid.tile_cols - 1, r).xmax =
                 RatAdd(grid.xmin, RatMulInt(grid.ncol, grid.xres))
      /\ \A c \in Cols(grid) :
            /\ Tile(c, 0).ymax = grid.ymax
            /\ \A r \in 0..(grid.tile_rows - 2) : Tile(c, r).ymin = Tile(c, r + 1).ymax
            /\ Tile(c, grid.tile_rows - 1).ymin =
                 RatSub(grid.ymax, RatMulInt(grid.nrow, grid.yres))
      /\ GotTile =>
            LET t == ret.res.val
            IN  /\ t.xmin = RatAdd(grid.xmin, RatMulInt(t.offset_x, grid.xres))
                /\ t.xmax = RatAdd(grid.xmin, RatMulInt(t.offset_x + t.ncol, grid.xres))
                /\ t.ymax = RatSub(grid.ymax, RatMulInt(t.offset_y, grid.yres))
                /\ t.ymin = RatSub(grid.ymax, RatMulInt(t.offset_y + t.nrow, grid.yres))

C8_Witness ==
    /\ GotTile
    /\ grid.xres.d > 1 /\ grid.yres.d > 1
    /\ ret.res.val.col >= 1 /\ ret.res.val.col = grid.tile_cols - 1
    /\ ret.res.val.row >= 1 /\ ret.res.val.row = grid.tile_rows - 1
    /\ ret.res.val.ncol < grid.block_width /\ ret.res.val.nrow < grid.block_height

OnlyExtent(a) == a.extent # None /\ a.transform = None
OnlyTransform(a) == a.extent = None /\ a.transform # None

(* what the constructor stores for an extent alone *)
ExtentStored(a, g) ==
    /\ g.xmin = a.extent[1]
    /\ g.ymax = a.extent[4]
    /\ RatMulInt(a.dim[1], g.xres) = RatSub(a.extent[2], a.extent[1])
    /\ RatMulInt(a.dim[2], g.yres) = RatSub(a.extent[4], a.extent[3])

C10_AsStated ==
    pc # "new" =>
      IF (args.extent = None /\ args.transform = None) \/ ~PositiveSizes(args)
      THEN pc = "failed" /\ err = "ValueError" /\ grid = NoGrid
      ELSE Ready /\ err = "none"

===========================================================================
